---- MODULE Spec2Model ----
(***************************************************************************)
(* Model of extract_linkdata.py: the index reader (read_index_entries),    *)
(* the block decoder (decompress_block) and the extractor (extract_blocks).*)
(* Files are sequences of bytes (0..255); Python's 0-based half-open       *)
(* slices are kept as such by Slice.                                       *)
(***************************************************************************)
EXTENDS Integers, Sequences, FiniteSets, TLC

VARIABLES
    idx_file,          \* bytes of the index file
    data_file,         \* bytes of the data file
    pc,                \* position of the run
    idx_pos,           \* fp_idx.tell()
    entries,           \* list built by read_index_entries
    idx_warned,        \* TRUE once the "Corrupt index entry" warning is printed
    filename_digits,   \* padding width computed at line 77
    block_id,          \* loop variable of the for loop at line 84
    block_data,        \* bytes read at line 91 (or the block given to the decoder)
    decoded,           \* result of decompress_block for the current block
    sink,              \* files written so far, in order: [id, name, bytes]
    log,               \* history: what happened to each record, in order
    built              \* how the block under decode was built (decoder runs only)

vars == <<idx_file, data_file, pc, idx_pos, entries, idx_warned, filename_digits,
          block_id, block_data, decoded, sink, log, built>>

-----------------------------------------------------------------------------
(* Program constants *)

FIELD_ALIGNMENT == 128
COMPRESSION_ZLIB == 1
INDEX_ENTRY_size == 40
DATA_ENTRY_HEADER_size == 128
\* the candidate field sizes of a sub-header: header_fields[3:] of 32 values
HeaderSlots == 29

(* Bounds of the model *)

\* most records of an index whose records are chosen independently
MaxRecords == 2
\* most records of an index whose records are all alike
MaxCount == 11
\* most fields of a block handed to the decoder on its own
MaxFields == 2

-----------------------------------------------------------------------------
(* Bytes *)

Min(a, b) == IF a < b THEN a ELSE b

\* Python s[a:b] for 0 <= a, 0 <= b
Slice(s, a, b) ==
    IF a >= Min(b, Len(s)) THEN <<>> ELSE SubSeq(s, a + 1, Min(b, Len(s)))

\* Python s[a:]
SliceFrom(s, a) == Slice(s, a, Len(s))

RECURSIVE UnpackLE(_)
\* struct '<I' / '<Q' on exactly Len(bytes) bytes: little-endian unsigned
UnpackLE(bytes) ==
    IF bytes = <<>> THEN 0
    ELSE bytes[1] + 256 * UnpackLE(Tail(bytes))

\* INDEX_ENTRY.unpack of a 40-byte chunk: '<QQQQ4s4s'
\* (offset, uncompressed_size, compressed_size, compression, tag, tag)
INDEX_ENTRY_unpack(chunk) ==
    << UnpackLE(SubSeq(chunk, 1, 8)),
       UnpackLE(SubSeq(chunk, 9, 16)),
       UnpackLE(SubSeq(chunk, 17, 24)),
       UnpackLE(SubSeq(chunk, 25, 32)),
       SubSeq(chunk, 33, 36),
       SubSeq(chunk, 37, 40) >>

\* DATA_ENTRY_HEADER.unpack of a 128-byte chunk: 32 little-endian u32
\* (header_fields[k] of the code is DATA_ENTRY_HEADER_unpack(chunk)[k + 1])
DATA_ENTRY_HEADER_unpack(chunk) ==
    [k \in 1..32 |-> UnpackLE(SubSeq(chunk, 4 * k - 3, 4 * k))]

-----------------------------------------------------------------------------
(* zlib, as far as the program sees it: a stream is a 2-byte header, the   *)
(* length, the shifted payload and a one-byte checksum.  Decompression     *)
(* fails (zlib.error) on an empty or truncated stream, a bad header or a   *)
(* bad checksum, and ignores what follows a complete stream.               *)

ZMagic == <<120, 156>>

RECURSIVE SumRange(_, _, _)
\* s[a] + ... + s[b], by halves
SumRange(s, a, b) ==
    IF a > b THEN 0
    ELSE IF a = b THEN s[a]
    ELSE SumRange(s, a, (a + b) \div 2) + SumRange(s, (a + b) \div 2 + 1, b)

SumSeq(s) == SumRange(s, 1, Len(s))

ZCheck(p) == (SumSeq(p) + Len(p)) % 128

zlib_compress(p) ==
    ZMagic \o <<Len(p)>> \o [i \in 1..Len(p) |-> (p[i] + 17) % 256]
           \o <<ZCheck(p)>>

zlib_decompress(s) ==
    IF Len(s) < 4 THEN [ok |-> FALSE, data |-> <<>>]
    ELSE IF SubSeq(s, 1, 2) # ZMagic THEN [ok |-> FALSE, data |-> <<>>]
    ELSE IF Len(s) < s[3] + 4 THEN [ok |-> FALSE, data |-> <<>>]
    ELSE LET p == [i \in 1..s[3] |-> (s[3 + i] + 256 - 17) % 256]
         IN IF s[s[3] + 4] # ZCheck(p) THEN [ok |-> FALSE, data |-> <<>>]
            ELSE [ok |-> TRUE, data |-> p]

-----------------------------------------------------------------------------
(* decompress_block *)

\* line 38: the non-zero values among header_fields[3:], in order
FieldSizes(header_fields) ==
    SelectSeq([k \in 1..HeaderSlots |-> header_fields[k + 3]], LAMBDA s : s > 0)

\* line 40 with >= for >: a block whose declared count equals the number of
\* field sizes is rejected too
FieldOverflow_AtLeast(header_fields, field_sizes) ==
    header_fields[2] >= Len(field_sizes)

\* line 40: the declared field count exceeds the number of field sizes
FieldOverflow(header_fields, field_sizes) ==
    header_fields[2] > Len(field_sizes)

\* line 61 left out: the next field starts where this one ends
AlignNext_Unaligned(end_offset) == end_offset

\* line 61: the next field starts at the next multiple of FIELD_ALIGNMENT
AlignNext(end_offset) ==
    ((end_offset + FIELD_ALIGNMENT - 1) \div FIELD_ALIGNMENT) * FIELD_ALIGNMENT

\* lines 54-56: the warning printed when the inner size disagrees
MismatchDiags(field_size, inner_field_size, id) ==
    IF field_size - 4 # inner_field_size
    THEN << [kind |-> "size_mismatch", block |-> id] >>
    ELSE <<>>

\* line 58 trusting the inner size: field_payload[4:4 + inner_field_size]
CompressedPart_ByInner(field_payload, inner_field_size) ==
    Slice(field_payload, 4, 4 + inner_field_size)

\* line 58: the bytes handed to zlib.decompress
CompressedPart(field_payload, inner_field_size) == SliceFrom(field_payload, 4)

\* What a call of decompress_block gives back.  raised: the exception that
\* leaves the function ("" when it returns); none: it returned None;
\* data: the bytearray it returned; diags: what it printed; inflated: how
\* many zlib.decompress calls had succeeded.
Returned(data, diags, n) ==
    [raised |-> "", none |-> FALSE, data |-> data, diags |-> diags, inflated |-> n]
ReturnedNone(diags, n) ==
    [raised |-> "", none |-> TRUE, data |-> <<>>, diags |-> diags, inflated |-> n]
Raised(exc, diags, n) ==
    [raised |-> exc, none |-> FALSE, data |-> <<>>, diags |-> diags, inflated |-> n]

RECURSIVE DecodeFields(_, _, _, _, _, _, _)
\* lines 48-63: the loop over field_sizes, from field k on
DecodeFields(block, id, field_sizes, k, start_offset, decompressed_data, diags) ==
    IF k > Len(field_sizes) THEN Returned(decompressed_data, diags, k - 1)
    ELSE
      LET field_size == field_sizes[k]
          end_offset == start_offset + field_size
          field_payload == Slice(block, start_offset, end_offset)
          head == Slice(field_payload, 0, 4)
      IN  IF Len(head) # 4
          THEN Raised("struct.error", diags, k - 1)      \* line 53, not caught
          ELSE
            LET inner_field_size == UnpackLE(head)
                d2 == diags \o MismatchDiags(field_size, inner_field_size, id)
                z == zlib_decompress(CompressedPart(field_payload, inner_field_size))
            IN  IF ~z.ok
                THEN ReturnedNone(                           \* lines 65-67
                       Append(d2, [kind |-> "decompression_failed", block |-> id]),
                       k - 1)
                ELSE DecodeFields(block, id, field_sizes, k + 1,
                                  AlignNext(end_offset),
                                  decompressed_data \o z.data, d2)

decompress_block(block, id) ==
    LET chunk == Slice(block, 0, DATA_ENTRY_HEADER_size)
    IN  IF Len(chunk) # DATA_ENTRY_HEADER_size
        THEN Raised("struct.error", <<>>, 0)              \* line 37, not caught
        ELSE
          LET header_fields == DATA_ENTRY_HEADER_unpack(chunk)
              field_sizes == FieldSizes(header_fields)
          IN  IF FieldOverflow(header_fields, field_sizes)
              THEN ReturnedNone(<< [kind |-> "field_overflow", block |-> id] >>, 0)
              ELSE DecodeFields(block, id, field_sizes, 1,
                                DATA_ENTRY_HEADER_size, <<>>, <<>>)

\* the value of decoded when no block has been decoded
NotDecoded == [raised |-> "", none |-> TRUE, data |-> <<>>, diags |-> <<>>, inflated |-> 0]

-----------------------------------------------------------------------------
(* Building input files (the layouts of the index record, the sub-header   *)
(* and the fields, written the way a producer of the container would).     *)

RECURSIVE PackLE(_, _)
\* v as n little-endian bytes
PackLE(v, n) == IF n = 0 THEN <<>> ELSE <<v % 256>> \o PackLE(v \div 256, n - 1)

RECURSIVE FlattenRange(_, _, _)
\* ss[a] \o ... \o ss[b], by halves
FlattenRange(ss, a, b) ==
    IF a > b THEN <<>>
    ELSE IF a = b THEN ss[a]
    ELSE FlattenRange(ss, a, (a + b) \div 2) \o FlattenRange(ss, (a + b) \div 2 + 1, b)

Flatten(ss) == FlattenRange(ss, 1, Len(ss))

Zeros(n) == [i \in 1..n |-> 0]

\* s followed by zeros up to the next multiple of FIELD_ALIGNMENT
Pad(s) == s \o Zeros((FIELD_ALIGNMENT - (Len(s) % FIELD_ALIGNMENT)) % FIELD_ALIGNMENT)

PackEntry(e) ==
    PackLE(e[1], 8) \o PackLE(e[2], 8) \o PackLE(e[3], 8) \o PackLE(e[4], 8)
        \o e[5] \o e[6]

\* one field: the 4-byte inner size, then the compressed payload
PackField(inner, stream) == PackLE(inner, 4) \o stream

\* a block: the 32-value sub-header, then the fields, each padded
PackBlock(header_fields, fields) ==
    Flatten([k \in 1..32 |-> PackLE(header_fields[k], 4)])
        \o Flatten([k \in 1..Len(fields) |-> Pad(fields[k])])

-----------------------------------------------------------------------------
(* File names *)

RECURSIVE Pow10(_)
Pow10(k) == IF k = 0 THEN 1 ELSE 10 * Pow10(k - 1)

RECURSIVE CeilLog10From(_, _)
CeilLog10From(n, k) == IF Pow10(k) >= n THEN k ELSE CeilLog10From(n, k + 1)

\* math.ceil(math.log10(n)) for n >= 1: the least k with 10^k >= n
CeilLog10(n) == CeilLog10From(n, 0)

\* line 77
FilenameDigits(ents) == IF Len(ents) > 0 THEN CeilLog10(Len(ents)) ELSE 1

RECURSIVE DecimalDigits(_)
\* str(n) for n >= 0, as character codes ("0" is 48)
DecimalDigits(n) ==
    IF n < 10 THEN <<48 + n>> ELSE Append(DecimalDigits(n \div 10), 48 + (n % 10))

\* f'{n:0{width}d}': str(n) with zeros in front up to width characters
ZeroPadded(n, width) ==
    LET d == DecimalDigits(n)
    IN  [i \in 1..(IF width > Len(d) THEN width - Len(d) ELSE 0) |-> 48] \o d

\* line 98: the file name within output_base_path, with ".bin" after the number
OutputFilename(id, width) == ZeroPadded(id, width) \o <<46, 98, 105, 110>>

-----------------------------------------------------------------------------
(* read_index_entries, lines 16-31 *)

\* line 25: fp_idx.read(INDEX_ENTRY.size)
IndexChunk == Slice(idx_file, idx_pos, idx_pos + INDEX_ENTRY_size)

\* lines 23-26: a whole record is read and appended
ReadIndexEntry ==
    /\ pc = "read_index"
    /\ idx_pos < Len(idx_file)
    /\ Len(IndexChunk) = INDEX_ENTRY_size
    /\ entries' = Append(entries, INDEX_ENTRY_unpack(IndexChunk))
    /\ idx_pos' = idx_pos + Len(IndexChunk)
    /\ UNCHANGED <<idx_file, data_file, pc, idx_warned, filename_digits, block_id,
                   block_data, decoded, sink, log, built>>

\* lines 27-29 failing the whole read: the records read so far are lost
ReadIndexCorrupt_DropsAll ==
    /\ pc = "read_index"
    /\ idx_pos < Len(idx_file)
    /\ Len(IndexChunk) # INDEX_ENTRY_size
    /\ idx_pos' = idx_pos + Len(IndexChunk)
    /\ idx_warned' = TRUE
    /\ entries' = <<>>
    /\ pc' = "indexed"
    /\ UNCHANGED <<idx_file, data_file, filename_digits, block_id,
                   block_data, decoded, sink, log, built>>

\* lines 27-29: a short read makes unpack raise struct.error: warn and break
ReadIndexCorrupt ==
    /\ pc = "read_index"
    /\ idx_pos < Len(idx_file)
    /\ Len(IndexChunk) # INDEX_ENTRY_size
    /\ idx_pos' = idx_pos + Len(IndexChunk)
    /\ idx_warned' = TRUE
    /\ pc' = "indexed"
    /\ UNCHANGED <<idx_file, data_file, entries, filename_digits, block_id,
                   block_data, decoded, sink, log, built>>

\* line 23 (loop exit) and line 31
ReadIndexReturn ==
    /\ pc = "read_index"
    /\ idx_pos >= Len(idx_file)
    /\ pc' = "indexed"
    /\ UNCHANGED <<idx_file, data_file, idx_pos, entries, idx_warned, filename_digits,
                   block_id, block_data, decoded, sink, log, built>>

-----------------------------------------------------------------------------
(* extract_blocks, lines 70-100 *)

\* lines 77-81
Prepare ==
    /\ pc = "indexed"
    /\ filename_digits' = FilenameDigits(entries)
    /\ pc' = "next"
    /\ UNCHANGED <<idx_file, data_file, idx_pos, entries, idx_warned, block_id,
                   block_data, decoded, sink, log, built>>

\* the record the loop at line 84 takes next
NextEntry == entries[block_id + 1]

\* line 85
InvalidRange(e) == e[1] + e[3] > Len(data_file)

\* line 93 looking at the low byte of the slot only
IsCompressed_LowByte(e) == e[4] % 256 = COMPRESSION_ZLIB

\* line 93
IsCompressed(e) == e[4] = COMPRESSION_ZLIB

\* lines 84-88: the range check fails, the record is skipped
SkipInvalid ==
    /\ pc = "next"
    /\ block_id < Len(entries)
    /\ InvalidRange(NextEntry)
    /\ block_id' = block_id + 1
    /\ log' = Append(log, [id |-> block_id + 1, ev |-> "skipped"])
    /\ UNCHANGED <<idx_file, data_file, pc, idx_pos, entries, idx_warned,
                   filename_digits, block_data, decoded, sink, built>>

\* lines 84-91: the range check passes, the block is read
ReadBlock ==
    /\ pc = "next"
    /\ block_id < Len(entries)
    /\ ~InvalidRange(NextEntry)
    /\ block_id' = block_id + 1
    /\ block_data' = Slice(data_file, NextEntry[1], NextEntry[1] + NextEntry[3])
    /\ decoded' = NotDecoded
    /\ log' = Append(log, [id |-> block_id + 1, ev |-> "read"])
    /\ pc' = "read"
    /\ UNCHANGED <<idx_file, data_file, idx_pos, entries, idx_warned,
                   filename_digits, sink, built>>

\* lines 93-96: decompress_block returns (a buffer or None)
Decompress ==
    /\ pc = "read"
    /\ IsCompressed(entries[block_id])
    /\ LET r == decompress_block(block_data, block_id)
       IN  /\ r.raised = ""
           /\ decoded' = r
           /\ block_data' = IF ~r.none THEN r.data ELSE block_data
    /\ log' = Append(log, [id |-> block_id, ev |-> "decoder"])
    /\ pc' = "write"
    /\ UNCHANGED <<idx_file, data_file, idx_pos, entries, idx_warned,
                   filename_digits, block_id, sink, built>>

\* line 94: decompress_block raises struct.error, which nothing catches
DecompressRaises ==
    /\ pc = "read"
    /\ IsCompressed(entries[block_id])
    /\ LET r == decompress_block(block_data, block_id)
       IN  /\ r.raised # ""
           /\ decoded' = r
    /\ log' = Append(log, [id |-> block_id, ev |-> "decoder"])
    /\ pc' = "crashed"
    /\ UNCHANGED <<idx_file, data_file, idx_pos, entries, idx_warned,
                   filename_digits, block_id, block_data, sink, built>>

\* line 93, condition false: the block goes on as read
PassRaw ==
    /\ pc = "read"
    /\ ~IsCompressed(entries[block_id])
    /\ pc' = "write"
    /\ UNCHANGED <<idx_file, data_file, idx_pos, entries, idx_warned,
                   filename_digits, block_id, block_data, decoded, sink, log, built>>

\* lines 98-100 with enumerate counting from 0
WriteOutput_ZeroBased ==
    /\ pc = "write"
    /\ sink' = Append(sink, [id |-> block_id - 1,
                             name |-> OutputFilename(block_id - 1, filename_digits),
                             bytes |-> block_data])
    /\ log' = Append(log, [id |-> block_id, ev |-> "written"])
    /\ pc' = "next"
    /\ UNCHANGED <<idx_file, data_file, idx_pos, entries, idx_warned,
                   filename_digits, block_id, block_data, decoded, built>>

\* lines 98-100
WriteOutput ==
    /\ pc = "write"
    /\ sink' = Append(sink, [id |-> block_id,
                             name |-> OutputFilename(block_id, filename_digits),
                             bytes |-> block_data])
    /\ log' = Append(log, [id |-> block_id, ev |-> "written"])
    /\ pc' = "next"
    /\ UNCHANGED <<idx_file, data_file, idx_pos, entries, idx_warned,
                   filename_digits, block_id, block_data, decoded, built>>

\* line 84: no record is left
Finish ==
    /\ pc = "next"
    /\ block_id = Len(entries)
    /\ pc' = "done"
    /\ UNCHANGED <<idx_file, data_file, idx_pos, entries, idx_warned,
                   filename_digits, block_id, block_data, decoded, sink, log, built>>

-----------------------------------------------------------------------------
(* Inputs *)

SeqsUpTo(S, n) == UNION {[1..k -> S] : k \in 0..n}

PSmall == <<1, 2, 3>>
\* a payload whose field is exactly FIELD_ALIGNMENT bytes long
PExact == [i \in 1..(FIELD_ALIGNMENT - 8) |-> i % 5]
\* a payload whose field takes more than FIELD_ALIGNMENT bytes
PLong == [i \in 1..(FIELD_ALIGNMENT + 2) |-> i % 7]
Payloads == {PSmall, PExact, PLong}

\* a stream whose checksum is wrong
CorruptStream(stream) == [stream EXCEPT ![Len(stream)] = (@ + 1) % 128]

\* sizes in the first slots, or in every second slot, the rest 0
SlotLayout(sizes, layout) ==
    [k \in 1..HeaderSlots |->
        IF layout = "packed"
        THEN (IF k <= Len(sizes) THEN sizes[k] ELSE 0)
        ELSE (IF k % 2 = 0 /\ k \div 2 <= Len(sizes) THEN sizes[k \div 2] ELSE 0)]

NoTweak == [kind |-> "none", k |-> 0, v |-> 0]

\* The block a producer writes for the payloads: the declared count in
\* header value [1], the field sizes in the slots, each field the inner
\* size and the compressed payload, padded.  A tweak spoils one field:
\* "inner" writes v more than the right inner size (or 0 when v = 0),
\* "corrupt" spoils the stream.
BuildStreams(payloads, tweak) ==
    [k \in 1..Len(payloads) |->
        IF tweak.kind = "corrupt" /\ tweak.k = k
        THEN CorruptStream(zlib_compress(payloads[k]))
        ELSE zlib_compress(payloads[k])]

BuildBlock(payloads, layout, declared, tweak) ==
    LET streams == BuildStreams(payloads, tweak)
        sizes == [k \in 1..Len(payloads) |-> 4 + Len(streams[k])]
        inner == [k \in 1..Len(payloads) |->
                    IF tweak.kind = "inner" /\ tweak.k = k
                    THEN (IF tweak.v = 0 THEN 0 ELSE sizes[k] - 4 + tweak.v)
                    ELSE sizes[k] - 4]
    IN  PackBlock(<<7, declared, 9>> \o SlotLayout(sizes, layout),
                  [k \in 1..Len(payloads) |-> PackField(inner[k], streams[k])])

\* where field k of the built block starts, by the layout rule
FieldStart(payloads, k) ==
    DATA_ENTRY_HEADER_size
      + SumSeq([i \in 1..(k - 1) |->
                 ((8 + Len(payloads[i]) + FIELD_ALIGNMENT - 1) \div FIELD_ALIGNMENT)
                    * FIELD_ALIGNMENT])

(* The data file of the extractor runs: four blocks one after the other. *)

GoodBlock == BuildBlock(<<PLong, PSmall>>, "packed", 2, NoTweak)
OverflowBlock == BuildBlock(<<PSmall>>, "packed", 2, NoTweak)
CorruptBlock == BuildBlock(<<PSmall, PSmall>>, "packed", 2,
                           [kind |-> "corrupt", k |-> 2, v |-> 0])
RawBlock == <<7, 8, 9>>

DataFile == GoodBlock \o OverflowBlock \o CorruptBlock \o RawBlock

OffOverflow == Len(GoodBlock)
OffCorrupt == Len(GoodBlock) + Len(OverflowBlock)
OffRaw == Len(GoodBlock) + Len(OverflowBlock) + Len(CorruptBlock)

Tag1 == <<1, 2, 3, 4>>
Tag2 == <<5, 6, 7, 8>>

\* <<offset, uncompressed_size, compressed_size, compression, tag, tag>>
EGood == <<0, Len(PLong) + Len(PSmall), Len(GoodBlock), 1, Tag1, Tag2>>
\* low byte 1, a reserved byte set
EGoodHigh == <<0, Len(PLong) + Len(PSmall), Len(GoodBlock), 257, Tag1, Tag2>>
ERaw == <<OffRaw, 3, 3, 0, Tag1, Tag2>>
\* low byte 0, a reserved byte set
ERawHigh == <<OffOverflow, 3, Len(OverflowBlock), 256, Tag1, Tag2>>
EOverflow == <<OffOverflow, 3, Len(OverflowBlock), 1, Tag1, Tag2>>
ECorrupt == <<OffCorrupt, 6, Len(CorruptBlock), 1, Tag1, Tag2>>
\* a deflate block shorter than the sub-header
EShort == <<OffRaw, 3, 3, 1, Tag1, Tag2>>
\* a deflate block that ends two bytes into its first field
EFieldPast == <<0, 3, DATA_ENTRY_HEADER_size + 2, 1, Tag1, Tag2>>
\* a range one byte past the end of the data file
EInvalid == <<OffRaw, 3, 4, 0, Tag1, Tag2>>

RecordChoices ==
    {EGood, EGoodHigh, ERaw, ERawHigh, EOverflow, ECorrupt, EShort, EFieldPast,
     EInvalid}

\* bytes left after the last whole record
TailLens == {0, 1, INDEX_ENTRY_size - 1}

PackIndex(recs, tail) ==
    Flatten([k \in 1..Len(recs) |-> PackEntry(recs[k])])
        \o SubSeq(PackEntry(ERaw), 1, tail)

IndexRecords ==
    SeqsUpTo(RecordChoices, MaxRecords)
      \cup {[k \in 1..n |-> e] : n \in 1..MaxCount, e \in RecordChoices}

NoBuild == [payloads |-> <<>>, layout |-> "", declared |-> 0, tweak |-> NoTweak]

-----------------------------------------------------------------------------
(* The run of extract_blocks on an index file and a data file *)

Init ==
    /\ \E recs \in IndexRecords, tail \in TailLens : idx_file = PackIndex(recs, tail)
    /\ data_file = DataFile
    /\ pc = "read_index"
    /\ idx_pos = 0
    /\ entries = <<>>
    /\ idx_warned = FALSE
    /\ filename_digits = 0
    /\ block_id = 0
    /\ block_data = <<>>
    /\ decoded = NotDecoded
    /\ sink = <<>>
    /\ log = <<>>
    /\ built = NoBuild

Next ==
    \/ ReadIndexEntry
    \/ ReadIndexCorrupt
    \/ ReadIndexReturn
    \/ Prepare
    \/ SkipInvalid
    \/ ReadBlock
    \/ Decompress
    \/ DecompressRaises
    \/ PassRaw
    \/ WriteOutput
    \/ Finish

Spec == Init /\ [][Next]_vars

-----------------------------------------------------------------------------
(* decompress_block on its own, on blocks built from payloads *)

Tweaks(m) ==
    {NoTweak}
      \cup {[kind |-> "inner", k |-> k, v |-> v] : k \in 1..m, v \in {0, 1, 256}}
      \cup {[kind |-> "corrupt", k |-> k, v |-> 0] : k \in 1..m}

Builds ==
    UNION {
      {[payloads |-> ps, layout |-> l, declared |-> d, tweak |-> t] :
          ps \in [1..m -> Payloads], l \in {"packed", "spread"},
          d \in (m - 1)..(m + 1), t \in Tweaks(m)} : m \in 1..MaxFields}
      \cup {[payloads |-> [k \in 1..HeaderSlots |-> <<k>>], layout |-> "packed",
             declared |-> HeaderSlots, tweak |-> NoTweak]}

InitDecode ==
    /\ built \in Builds
    /\ block_data = BuildBlock(built.payloads, built.layout, built.declared, built.tweak)
    /\ block_id = 1
    /\ pc = "decode"
    /\ decoded = NotDecoded
    /\ idx_file = <<>>
    /\ data_file = <<>>
    /\ idx_pos = 0
    /\ entries = <<>>
    /\ idx_warned = FALSE
    /\ filename_digits = 0
    /\ sink = <<>>
    /\ log = <<>>

\* one call of decompress_block(block_data, block_id)
DecodeBlock ==
    /\ pc = "decode"
    /\ decoded' = decompress_block(block_data, block_id)
    /\ pc' = "decoded"
    /\ UNCHANGED <<idx_file, data_file, idx_pos, entries, idx_warned,
                   filename_digits, block_id, block_data, sink, log, built>>

NextDecode == DecodeBlock

SpecDecode == InitDecode /\ [][NextDecode]_vars

-----------------------------------------------------------------------------
(* What the claims speak of *)

\* the range of record e lies within the data file
ValidRange(e) == e[1] + e[3] <= Len(data_file)

\* the bytes of the data file that record e describes
RawBytesOf(e) == Slice(data_file, e[1], e[1] + e[3])

\* the sink holds a file for block i
Written(i) == \E k \in 1..Len(sink) : sink[k].id = i

\* the log holds event ev for block i
Logged(i, ev) == \E k \in 1..Len(log) : log[k].id = i /\ log[k].ev = ev

\* the run has ended, by the end of the loop or by an exception
Ended == pc \in {"done", "crashed"}

\* the index has been read
IndexRead == pc \notin {"read_index", "decode", "decoded"}

\* the extractor has decided how block i is treated
Decided(i) ==
    \/ i < block_id
    \/ i = block_id /\ pc \in {"write", "next", "done", "crashed"}

\* the decimal number a file name starts with
NumericPart(name) == SubSeq(name, 1, Len(name) - 4)

RECURSIVE DecimalValue(_)
DecimalValue(d) ==
    IF d = <<>> THEN 0
    ELSE 10 * DecimalValue(SubSeq(d, 1, Len(d) - 1)) + (d[Len(d)] - 48)

\* a comes before b in the order of strings
LexLess(a, b) ==
    \E i \in 1..(Min(Len(a), Len(b)) + 1) :
        /\ \A j \in 1..(i - 1) : a[j] = b[j]
        /\ \/ i > Len(a) /\ i <= Len(b)
           \/ i <= Len(a) /\ i <= Len(b) /\ a[i] < b[i]

\* the number of non-zero values among header values [3..32) of a block
NonZeroSlots(block) ==
    Cardinality({k \in 4..32 :
        DATA_ENTRY_HEADER_unpack(Slice(block, 0, DATA_ENTRY_HEADER_size))[k] # 0})

DeclaredCount(block) ==
    DATA_ENTRY_HEADER_unpack(Slice(block, 0, DATA_ENTRY_HEADER_size))[2]

HasDiag(r, kind) == \E k \in 1..Len(r.diags) : r.diags[k].kind = kind

-----------------------------------------------------------------------------
(* Claims *)

\* C1: a record with a valid range and compression_method 1 whose block the
\* decoder fails on (field overflow or failed decompression) gets no file:
\* the sink holds nothing under its block id.
C1_FailedBlockNotWritten ==
    IndexRead =>
      \A i \in 1..Len(entries) :
        ( /\ Decided(i)
          /\ ValidRange(entries[i])
          /\ entries[i][4] = 1
          /\ decompress_block(RawBytesOf(entries[i]), i).none )
        => ~Written(i)

\* C2: the run visits every record and ends by the end of the loop: a
\* deflate block shorter than the sub-header, or one whose field lies past
\* the end of the block, fails that block alone, and once the run has ended
\* every record has been read or skipped.
C2_MalformedBlockNotFatal ==
    /\ pc # "crashed"
    /\ pc = "done" =>
         \A i \in 1..Len(entries) : Logged(i, "read") \/ Logged(i, "skipped")

\* C3: once the run has ended, a record whose range exceeds the data file
\* has no file, and every record with a valid range that does not fail
\* decoding has exactly one file, named by its 1-based position in the index.
C3_ValidRecordsWrittenByPosition ==
    Ended =>
      \A i \in 1..Len(entries) :
        /\ ~ValidRange(entries[i]) => ~Written(i)
        /\ ( /\ ValidRange(entries[i])
             /\ \/ entries[i][4] # 1
                \/ LET r == decompress_block(RawBytesOf(entries[i]), i)
                   IN  r.raised = "" /\ ~r.none )
           => /\ Cardinality({k \in 1..Len(sink) : sink[k].id = i}) = 1
              /\ \A k \in 1..Len(sink) :
                   sink[k].id = i => DecimalValue(NumericPart(sink[k].name)) = i

\* C4: for an index of L bytes read_index_entries returns floor(L / 40)
\* records, the k-th being the k-th 40-byte chunk of the file, and warns of
\* a corrupt entry exactly when L is not a multiple of 40.
C4_IndexRecordsPerChunk ==
    IndexRead =>
      /\ Len(entries) = Len(idx_file) \div 40
      /\ \A k \in 1..Len(entries) :
           PackEntry(entries[k]) = Slice(idx_file, 40 * (k - 1), 40 * k)
      /\ idx_warned <=> (Len(idx_file) % 40 # 0)

C4_Witness ==
    /\ pc = "indexed"
    /\ idx_warned
    /\ Len(entries) = 2
    /\ Len(idx_file) = 2 * 40 + 39
    /\ entries[1] # entries[2]

\* C5: a block built from M payloads (1 <= M <= 29), each compressed,
\* prefixed with its inner size and padded to the next 128-byte boundary,
\* with the sizes in the slots of a correct sub-header, decodes to the
\* payloads one after the other; field k lies at 128 plus the padded
\* lengths of the fields before it.
C5_RoundTrip ==
    ( /\ pc = "decoded"
      /\ built.tweak = NoTweak
      /\ built.declared <= Len(built.payloads) )
    => /\ decoded.raised = ""
       /\ ~decoded.none
       /\ decoded.data = Flatten(built.payloads)
       /\ \A k \in 1..Len(built.payloads) :
            Slice(block_data, FieldStart(built.payloads, k) + 4,
                  FieldStart(built.payloads, k) + 8 + Len(built.payloads[k]))
              = zlib_compress(built.payloads[k])

C5_Witness ==
    /\ pc = "decoded"
    /\ built.tweak = NoTweak
    /\ built.payloads = <<PLong, PSmall>>
    /\ built.layout = "spread"
    /\ built.declared = 2
    /\ decoded.data = PLong \o PSmall

\* C6: when header value [1] exceeds the number of non-zero values among
\* header values [3..32) the decoder reports the field overflow, has
\* decompressed nothing and returns no buffer; when it does not exceed it,
\* no field overflow is reported.
C6_FieldCountOverflow ==
    pc = "decoded" =>
      /\ DeclaredCount(block_data) > NonZeroSlots(block_data)
           => /\ decoded.none
              /\ decoded.raised = ""
              /\ decoded.data = <<>>
              /\ decoded.inflated = 0
              /\ decoded.diags = << [kind |-> "field_overflow", block |-> block_id] >>
      /\ DeclaredCount(block_data) <= NonZeroSlots(block_data)
           => ~HasDiag(decoded, "field_overflow")

C6_Witness ==
    /\ pc = "decoded"
    /\ Len(built.payloads) = 2
    /\ built.declared = 3
    /\ DeclaredCount(block_data) = NonZeroSlots(block_data) + 1
    /\ decoded.none

\* C7: in an otherwise valid block a field whose inner declared size is
\* not field_size - 4 changes nothing but the diagnostics: the decoder
\* returns what it returns for the block with the right inner size, the
\* payloads one after the other, and prints the mismatch.
C7_InnerSizeAdvisory ==
    ( /\ pc = "decoded"
      /\ built.tweak.kind = "inner"
      /\ built.declared <= Len(built.payloads) )
    => LET clean == decompress_block(
                      BuildBlock(built.payloads, built.layout, built.declared, NoTweak),
                      block_id)
       IN  /\ block_data #
                BuildBlock(built.payloads, built.layout, built.declared, NoTweak)
           /\ decoded.raised = ""
           /\ ~decoded.none
           /\ decoded.data = clean.data
           /\ decoded.data = Flatten(built.payloads)
           /\ clean.diags = <<>>
           /\ decoded.diags = << [kind |-> "size_mismatch", block |-> block_id] >>

C7_Witness ==
    /\ pc = "decoded"
    /\ built.tweak = [kind |-> "inner", k |-> 2, v |-> 0]
    /\ built.payloads = <<PSmall, PLong>>
    /\ built.declared = 2
    /\ decoded.data = PSmall \o PLong
    /\ HasDiag(decoded, "size_mismatch")

\* C8: with N records the number in every file name is as long as the
\* decimal form of N, so all names are equally long and their order as
\* strings is the order of their block ids.
C8_NamesPaddedToDigitCount ==
    IndexRead =>
      /\ \A k \in 1..Len(sink) :
           Len(NumericPart(sink[k].name)) = Len(DecimalDigits(Len(entries)))
      /\ \A j, k \in 1..Len(sink) :
           /\ Len(sink[j].name) = Len(sink[k].name)
           /\ sink[j].id < sink[k].id <=> LexLess(sink[j].name, sink[k].name)

C10_InIndexOrder ==
    /\ \A k \in 1..Len(sink) : sink[k].id \in 1..Len(entries)
    /\ \A k \in 1..(Len(sink) - 1) : sink[k].id < sink[k + 1].id
    /\ \A p \in 1..Len(log) :
         (log[p].ev = "read" /\ log[p].id # 1) =>
           \E q \in 1..(p - 1) :
             /\ log[q].id = log[p].id - 1
             /\ log[q].ev \in {"written", "skipped"}
    /\ \A p \in 1..Len(log) :
         log[p].ev = "read" =>
           \A q \in 1..(p - 1) : log[q].id < log[p].id

C10_Witness ==
    /\ pc = "done"
    /\ Len(entries) = 3
    /\ Len(sink) = 3
    /\ sink[3].id = 3
    /\ Logged(3, "decoder")

====
